---- MODULE Spec2Model ----
(***************************************************************************)
(* so_buff: a fixed-capacity buffer Buffer<T, N> over an array of          *)
(* MaybeUninit<T> slots, and the consuming iterator IntoIter<T, N> that    *)
(* drains it in insertion order (src/src/lib.rs).                          *)
(*                                                                         *)
(* One owner drives one buffer through its lifecycle: new, push*, then     *)
(* either drop of the buffer, or into_iter, next*, drop of the iterator.   *)
(* The element type T is instrumented: every element destruction is       *)
(* recorded, together with the slot it was run on.                         *)
(***************************************************************************)
EXTENDS Integers, Sequences, FiniteSets, TLC

\* Largest capacity N explored (N is a const generic, any usize).
MaxN == 3
\* Element values are 1..MaxVal (T is any type; two values tell order apart).
MaxVal == 2
\* The ghost counter of next() calls saturates here (one past k+1 pulls).
MaxPulls == MaxN + 2

Capacities == 0..MaxN
Values == 1..MaxVal

VARIABLES
    N,          \* the const generic capacity of the buffer under test
    phase,      \* "buffer": Buffer alive; "iter": IntoIter alive; "dropped"
    buf,        \* the Buffer: [data, len]
    iter,       \* the IntoIter: [buffer, len, current_index]
    ret,        \* the last call: [op, arg, res]
    pushed,     \* ghost: the values of the pushes that returned Ok(()), in order
    rejected,   \* ghost: some push on this buffer returned Err
    pulls,      \* ghost: number of next() calls on the iterator (saturating)
    delivered,  \* ghost: the values next() returned in Some, in order
    destroyed,  \* ghost: element destructions, [by, index, slot] in order
    ub          \* ghost: an uninitialized slot was read or dropped as a T

vars == <<N, phase, buf, iter, ret, pushed, rejected, pulls, delivered, destroyed, ub>>

----------------------------------------------------------------------------
\* MaybeUninit<T>: a slot is unformed, or holds one value.
Uninit == <<>>
Write(value) == <<value>>
IsInit(slot) == slot # Uninit

\* [const {MaybeUninit::uninit()}; N]
UninitArray(n) == [i \in 0..(n - 1) |-> Uninit]

\* MaybeUninit::assume_init: the value held; on an unformed slot the read is
\* undefined behaviour and any bit pattern of T may come out.
AssumeInit(slot) == IF IsInit(slot) THEN {slot[1]} ELSE Values

\* Return values: Result<(), T>, Option<T>, and () for the calls without one.
Ok == [tag |-> "Ok", val |-> <<>>]
BufferIsFull(value) == [tag |-> "Err", val |-> <<value>>]
Some(value) == [tag |-> "Some", val |-> <<value>>]
None == [tag |-> "None", val |-> <<>>]
Unit == [tag |-> "Unit", val |-> <<>>]

Call(op, arg, res) == [op |-> op, arg |-> arg, res |-> res]

\* The destructor of T run in place on slots lo..hi-1 of storage, in index order.
DropInPlace(by, storage, lo, hi) ==
    [k \in 1..(hi - lo) |-> [by |-> by, index |-> lo + k - 1, slot |-> storage[lo + k - 1]]]

\* The storage after the destructor ran on slots lo..hi-1: they hold no value.
AfterDrop(storage, lo, hi) ==
    [i \in DOMAIN storage |-> IF lo <= i /\ i < hi THEN Uninit ELSE storage[i]]

\* Some destruction in events was run on an unformed slot.
DropsUninit(events) == \E k \in 1..Len(events) : ~IsInit(events[k].slot)

----------------------------------------------------------------------------
\* Buffer::new
BufferNew(n) == [data |-> UninitArray(n), len |-> 0]

\* No iterator exists yet.
NoIter == [buffer |-> UninitArray(0), len |-> 0, current_index |-> 0]

\* Variant of BufferDrop that runs the destructor over the whole array, 0..N.
BufferDropWholeArray(b) == DropInPlace("Buffer", b.data, 0, N)

\* <Buffer as Drop>::drop: drop_in_place on the slice data[0..len].
BufferDrop(b) == DropInPlace("Buffer", b.data, 0, b.len)

\* Variant of IntoIterDrop that starts at slot 0 instead of current_index.
IntoIterDropFromZero(it) == DropInPlace("IntoIter", it.buffer, 0, it.len)

\* Variant of IntoIterDrop that runs no destructor (IntoIter without a Drop impl).
IntoIterDropNothing(it) == DropInPlace("IntoIter", it.buffer, it.len, it.len)

\* <IntoIter as Drop>::drop: assume_init_drop on buffer[current_index..len].
IntoIterDrop(it) == DropInPlace("IntoIter", it.buffer, it.current_index, it.len)

Init ==
    /\ N \in Capacities
    /\ phase = "buffer"
    /\ buf = BufferNew(N)
    /\ iter = NoIter
    /\ ret = Call("new", <<>>, Unit)
    /\ pushed = <<>>
    /\ rejected = FALSE
    /\ pulls = 0
    /\ delivered = <<>>
    /\ destroyed = <<>>
    /\ ub = FALSE

\* Buffer::new, for the next buffer once the previous one is gone.
New(n) ==
    /\ phase = "dropped"
    /\ N' = n
    /\ phase' = "buffer"
    /\ buf' = BufferNew(n)
    /\ iter' = NoIter
    /\ ret' = Call("new", <<>>, Unit)
    /\ pushed' = <<>>
    /\ rejected' = FALSE
    /\ pulls' = 0
    /\ delivered' = <<>>
    /\ destroyed' = <<>>
    /\ ub' = FALSE

\* Variant of Push that, when full, swaps the value into the last slot and
\* hands back the evicted one.
PushEvictsLast(value) ==
    /\ phase = "buffer"
    /\ IF buf.len >= N
       THEN /\ IF N > 0
               THEN /\ ret' = Call("push", <<value>>, BufferIsFull(buf.data[N - 1][1]))
                    /\ buf' = [buf EXCEPT !.data[N - 1] = Write(value)]
               ELSE /\ ret' = Call("push", <<value>>, BufferIsFull(value))
                    /\ UNCHANGED buf
            /\ rejected' = TRUE
            /\ UNCHANGED pushed
       ELSE /\ buf' = [buf EXCEPT !.data[buf.len] = Write(value), !.len = @ + 1]
            /\ ret' = Call("push", <<value>>, Ok)
            /\ pushed' = Append(pushed, value)
            /\ UNCHANGED rejected
    /\ UNCHANGED <<N, phase, iter, pulls, delivered, destroyed, ub>>

\* Variant of Push without `self.len += 1`.
PushKeepsLen(value) ==
    /\ phase = "buffer"
    /\ IF buf.len >= N
       THEN /\ ret' = Call("push", <<value>>, BufferIsFull(value))
            /\ rejected' = TRUE
            /\ UNCHANGED <<buf, pushed>>
       ELSE /\ buf' = [buf EXCEPT !.data[buf.len] = Write(value)]
            /\ ret' = Call("push", <<value>>, Ok)
            /\ pushed' = Append(pushed, value)
            /\ UNCHANGED rejected
    /\ UNCHANGED <<N, phase, iter, pulls, delivered, destroyed, ub>>

\* Variant of Push whose fullness test is `self.len + 1 >= N`.
PushFullOneEarly(value) ==
    /\ phase = "buffer"
    /\ IF buf.len + 1 >= N
       THEN /\ ret' = Call("push", <<value>>, BufferIsFull(value))
            /\ rejected' = TRUE
            /\ UNCHANGED <<buf, pushed>>
       ELSE /\ buf' = [buf EXCEPT !.data[buf.len] = Write(value), !.len = @ + 1]
            /\ ret' = Call("push", <<value>>, Ok)
            /\ pushed' = Append(pushed, value)
            /\ UNCHANGED rejected
    /\ UNCHANGED <<N, phase, iter, pulls, delivered, destroyed, ub>>

\* Variant of Push that fills the array from the back: slot N - 1 - len.
PushFromBack(value) ==
    /\ phase = "buffer"
    /\ IF buf.len >= N
       THEN /\ ret' = Call("push", <<value>>, BufferIsFull(value))
            /\ rejected' = TRUE
            /\ UNCHANGED <<buf, pushed>>
       ELSE /\ buf' = [buf EXCEPT !.data[N - 1 - buf.len] = Write(value), !.len = @ + 1]
            /\ ret' = Call("push", <<value>>, Ok)
            /\ pushed' = Append(pushed, value)
            /\ UNCHANGED rejected
    /\ UNCHANGED <<N, phase, iter, pulls, delivered, destroyed, ub>>

\* Variant of Push that starts over at slot 0 once it has rejected a value.
PushResetsWhenFull(value) ==
    /\ phase = "buffer"
    /\ IF buf.len >= N
       THEN /\ ret' = Call("push", <<value>>, BufferIsFull(value))
            /\ buf' = [buf EXCEPT !.len = 0]
            /\ rejected' = TRUE
            /\ UNCHANGED pushed
       ELSE /\ buf' = [buf EXCEPT !.data[buf.len] = Write(value), !.len = @ + 1]
            /\ ret' = Call("push", <<value>>, Ok)
            /\ pushed' = Append(pushed, value)
            /\ UNCHANGED rejected
    /\ UNCHANGED <<N, phase, iter, pulls, delivered, destroyed, ub>>

\* Buffer::push
Push(value) ==
    /\ phase = "buffer"
    /\ IF buf.len >= N
       THEN /\ ret' = Call("push", <<value>>, BufferIsFull(value))
            /\ rejected' = TRUE
            /\ UNCHANGED <<buf, pushed>>
       ELSE /\ buf' = [buf EXCEPT !.data[buf.len] = Write(value), !.len = @ + 1]
            /\ ret' = Call("push", <<value>>, Ok)
            /\ pushed' = Append(pushed, value)
            /\ UNCHANGED rejected
    /\ UNCHANGED <<N, phase, iter, pulls, delivered, destroyed, ub>>

\* The buffer goes out of scope without being consumed: <Buffer as Drop>::drop.
DropBuffer ==
    /\ phase = "buffer"
    /\ destroyed' = destroyed \o BufferDrop(buf)
    /\ ub' = (ub \/ DropsUninit(BufferDrop(buf)))
    /\ buf' = [buf EXCEPT !.data = AfterDrop(buf.data, 0, buf.len)]
    /\ phase' = "dropped"
    /\ ret' = Call("drop_buffer", <<>>, Unit)
    /\ UNCHANGED <<N, iter, pushed, rejected, pulls, delivered>>

\* Variant of IntoIter without `self.len = 0`.
IntoIterKeepsLen ==
    /\ phase = "buffer"
    /\ LET len == buf.len
           zeroed == buf
           buffer == zeroed.data
           self == [zeroed EXCEPT !.data = UninitArray(N)]
       IN /\ iter' = [buffer |-> buffer, len |-> len, current_index |-> 0]
          /\ destroyed' = destroyed \o BufferDrop(self)
          /\ ub' = (ub \/ DropsUninit(BufferDrop(self)))
          /\ buf' = [self EXCEPT !.data = AfterDrop(self.data, 0, self.len)]
    /\ phase' = "iter"
    /\ ret' = Call("into_iter", <<>>, Unit)
    /\ UNCHANGED <<N, pushed, rejected, pulls, delivered>>

\* Variant of IntoIter that hands the iterator the fresh array and keeps the
\* filled one in self.
IntoIterTakesFresh ==
    /\ phase = "buffer"
    /\ LET len == buf.len
           zeroed == [buf EXCEPT !.len = 0]
           buffer == UninitArray(N)
           self == zeroed
       IN /\ iter' = [buffer |-> buffer, len |-> len, current_index |-> 0]
          /\ destroyed' = destroyed \o BufferDrop(self)
          /\ ub' = (ub \/ DropsUninit(BufferDrop(self)))
          /\ buf' = [self EXCEPT !.data = AfterDrop(self.data, 0, self.len)]
    /\ phase' = "iter"
    /\ ret' = Call("into_iter", <<>>, Unit)
    /\ UNCHANGED <<N, pushed, rejected, pulls, delivered>>

\* <Buffer as IntoIterator>::into_iter.  self is taken by value: its len is
\* zeroed, its data is swapped for a fresh unformed array, and when the
\* function returns self goes out of scope and <Buffer as Drop>::drop runs on it.
IntoIter ==
    /\ phase = "buffer"
    /\ LET len == buf.len
           zeroed == [buf EXCEPT !.len = 0]
           buffer == zeroed.data
           self == [zeroed EXCEPT !.data = UninitArray(N)]
       IN /\ iter' = [buffer |-> buffer, len |-> len, current_index |-> 0]
          /\ destroyed' = destroyed \o BufferDrop(self)
          /\ ub' = (ub \/ DropsUninit(BufferDrop(self)))
          /\ buf' = [self EXCEPT !.data = AfterDrop(self.data, 0, self.len)]
    /\ phase' = "iter"
    /\ ret' = Call("into_iter", <<>>, Unit)
    /\ UNCHANGED <<N, pushed, rejected, pulls, delivered>>

\* Variant of IterNext that yields from the back: slot len - 1 - current_index.
IterNextFromBack ==
    /\ phase = "iter"
    /\ pulls' = IF pulls < MaxPulls THEN pulls + 1 ELSE pulls
    /\ IF iter.current_index >= iter.len
       THEN /\ ret' = Call("next", <<>>, None)
            /\ UNCHANGED <<iter, delivered, ub>>
       ELSE LET value == iter.buffer[iter.len - 1 - iter.current_index]
            IN /\ iter' = [iter EXCEPT !.buffer[iter.len - 1 - iter.current_index] = Uninit,
                                       !.current_index = @ + 1]
               /\ \E item \in AssumeInit(value) :
                      /\ ret' = Call("next", <<>>, Some(item))
                      /\ delivered' = Append(delivered, item)
               /\ ub' = (ub \/ ~IsInit(value))
    /\ UNCHANGED <<N, phase, buf, pushed, rejected, destroyed>>

\* Variant of IterNext without `self.current_index += 1`.
IterNextKeepsIndex ==
    /\ phase = "iter"
    /\ pulls' = IF pulls < MaxPulls THEN pulls + 1 ELSE pulls
    /\ IF iter.current_index >= iter.len
       THEN /\ ret' = Call("next", <<>>, None)
            /\ UNCHANGED <<iter, delivered, ub>>
       ELSE LET value == iter.buffer[iter.current_index]
            IN /\ iter' = [iter EXCEPT !.buffer[iter.current_index] = Uninit]
               /\ \E item \in AssumeInit(value) :
                      /\ ret' = Call("next", <<>>, Some(item))
                      /\ delivered' = Append(delivered, item)
               /\ ub' = (ub \/ ~IsInit(value))
    /\ UNCHANGED <<N, phase, buf, pushed, rejected, destroyed>>

\* Variant of IterNext whose end test is `self.current_index >= N`.
IterNextUntilCapacity ==
    /\ phase = "iter"
    /\ pulls' = IF pulls < MaxPulls THEN pulls + 1 ELSE pulls
    /\ IF iter.current_index >= N
       THEN /\ ret' = Call("next", <<>>, None)
            /\ UNCHANGED <<iter, delivered, ub>>
       ELSE LET value == iter.buffer[iter.current_index]
            IN /\ iter' = [iter EXCEPT !.buffer[iter.current_index] = Uninit,
                                       !.current_index = @ + 1]
               /\ \E item \in AssumeInit(value) :
                      /\ ret' = Call("next", <<>>, Some(item))
                      /\ delivered' = Append(delivered, item)
               /\ ub' = (ub \/ ~IsInit(value))
    /\ UNCHANGED <<N, phase, buf, pushed, rejected, destroyed>>

\* Variant of IterNext that rewinds to slot 0 when it reaches the end.
IterNextRewinds ==
    /\ phase = "iter"
    /\ pulls' = IF pulls < MaxPulls THEN pulls + 1 ELSE pulls
    /\ IF iter.current_index >= iter.len
       THEN /\ ret' = Call("next", <<>>, None)
            /\ iter' = [iter EXCEPT !.current_index = 0]
            /\ UNCHANGED <<delivered, ub>>
       ELSE LET value == iter.buffer[iter.current_index]
            IN /\ iter' = [iter EXCEPT !.buffer[iter.current_index] = Uninit,
                                       !.current_index = @ + 1]
               /\ \E item \in AssumeInit(value) :
                      /\ ret' = Call("next", <<>>, Some(item))
                      /\ delivered' = Append(delivered, item)
               /\ ub' = (ub \/ ~IsInit(value))
    /\ UNCHANGED <<N, phase, buf, pushed, rejected, destroyed>>

\* <IntoIter as Iterator>::next
IterNext ==
    /\ phase = "iter"
    /\ pulls' = IF pulls < MaxPulls THEN pulls + 1 ELSE pulls
    /\ IF iter.current_index >= iter.len
       THEN /\ ret' = Call("next", <<>>, None)
            /\ UNCHANGED <<iter, delivered, ub>>
       ELSE LET value == iter.buffer[iter.current_index]
            IN /\ iter' = [iter EXCEPT !.buffer[iter.current_index] = Uninit,
                                       !.current_index = @ + 1]
               /\ \E item \in AssumeInit(value) :
                      /\ ret' = Call("next", <<>>, Some(item))
                      /\ delivered' = Append(delivered, item)
               /\ ub' = (ub \/ ~IsInit(value))
    /\ UNCHANGED <<N, phase, buf, pushed, rejected, destroyed>>

\* The iterator goes out of scope: <IntoIter as Drop>::drop.
DropIntoIter ==
    /\ phase = "iter"
    /\ destroyed' = destroyed \o IntoIterDrop(iter)
    /\ ub' = (ub \/ DropsUninit(IntoIterDrop(iter)))
    /\ iter' = [iter EXCEPT !.buffer = AfterDrop(iter.buffer, iter.current_index, iter.len)]
    /\ phase' = "dropped"
    /\ ret' = Call("drop_iter", <<>>, Unit)
    /\ UNCHANGED <<N, buf, pushed, rejected, pulls, delivered>>

Next ==
    \/ \E n \in Capacities : New(n)
    \/ \E value \in Values : Push(value)
    \/ DropBuffer
    \/ IntoIter
    \/ IterNext
    \/ DropIntoIter

Spec == Init /\ [][Next]_vars

----------------------------------------------------------------------------
\* The destructions recorded on slot i.
DestroyedAt(i) == {k \in 1..Len(destroyed) : destroyed[k].index = i}

\* Slot i of storage holds a live value.
Live(storage, i) == IsInit(storage[i])

\* C1: a push(v) on a full buffer (len = N) returns BufferIsFull(v) with the
\* very v passed in, and leaves len and every slot as they were.
C1_FullPushIsNoOp ==
    [][ (phase = "buffer" /\ buf.len = N /\ ret'.op = "push")
            => /\ ret'.res = BufferIsFull(ret'.arg[1])
               /\ buf'.len = buf.len
               /\ \A i \in 0..(N - 1) : buf'.data[i] = buf.data[i] ]_vars

\* A push was rejected by a full buffer of two slots holding different values.
C1_Witness ==
    /\ phase = "buffer" /\ ret.op = "push" /\ ret.res.tag = "Err"
    /\ N >= 2 /\ buf.len = N /\ buf.data[0] # buf.data[1]

\* C2: the values pulled from the iterator are the values of the successful
\* pushes, in push order: a prefix of them while draining, all of them once
\* next() has returned None.
C2_DrainYieldsPushedInOrder ==
    /\ phase = "iter" => /\ Len(delivered) <= Len(pushed)
                         /\ delivered = SubSeq(pushed, 1, Len(delivered))
    /\ (phase = "iter" /\ ret.op = "next" /\ ret.res = None) => delivered = pushed

\* A buffer that also rejected a push was drained to the end, and its first
\* two values differ.
C2_Witness ==
    /\ phase = "iter" /\ ret.op = "next" /\ ret.res = None /\ rejected
    /\ Len(delivered) >= 2 /\ delivered[1] # delivered[2]

\* C3: dropping an iterator that pulled j of k values (j < k) destroys each of
\* the slots j..k-1 once, with the value pushed there, and no other slot.
C3_IterDropDestroysRemainder ==
    (phase = "dropped" /\ ret.op = "drop_iter" /\ Len(delivered) < Len(pushed)) =>
        /\ ~ub
        /\ \A i \in 0..(N - 1) :
               Cardinality(DestroyedAt(i)) =
                   IF Len(delivered) <= i /\ i < Len(pushed) THEN 1 ELSE 0
        /\ \A k \in 1..Len(destroyed) :
               /\ destroyed[k].by = "IntoIter"
               /\ destroyed[k].index \in 0..(N - 1)
               /\ destroyed[k].slot = <<pushed[destroyed[k].index + 1]>>

\* An iterator was dropped with pulled, remaining and never-pushed slots.
C3_Witness ==
    /\ phase = "dropped" /\ ret.op = "drop_iter"
    /\ 0 < Len(delivered) /\ Len(delivered) < Len(pushed) /\ Len(pushed) < N
    /\ Len(destroyed) > 0

\* C4: dropping an unconsumed buffer after k successful pushes destroys each
\* of the slots 0..k-1 once, with the value pushed there, and no slot k..N-1.
C4_BufferDropDestroysLive ==
    (phase = "dropped" /\ ret.op = "drop_buffer") =>
        /\ ~ub
        /\ Len(destroyed) = Len(pushed)
        /\ \A i \in 0..(N - 1) :
               Cardinality(DestroyedAt(i)) = IF i < Len(pushed) THEN 1 ELSE 0
        /\ \A k \in 1..Len(destroyed) :
               /\ destroyed[k].by = "Buffer"
               /\ destroyed[k].index \in 0..(N - 1)
               /\ destroyed[k].slot = <<pushed[destroyed[k].index + 1]>>

\* A partly filled buffer was dropped unconsumed.
C4_Witness ==
    /\ phase = "dropped" /\ ret.op = "drop_buffer"
    /\ 0 < Len(pushed) /\ Len(pushed) < N /\ Len(destroyed) > 0

\* C5: from into_iter on, the consumed buffer has len 0 and only unformed
\* slots, its own drop destroyed nothing, and no slot is destroyed twice.
C5_ConsumedBufferOwnsNothing ==
    (phase = "iter" \/ (phase = "dropped" /\ ret.op = "drop_iter")) =>
        /\ buf.len = 0
        /\ \A i \in 0..(N - 1) : ~Live(buf.data, i)
        /\ \A k \in 1..Len(destroyed) : destroyed[k].by # "Buffer"
        /\ \A i \in 0..(N - 1) : Cardinality(DestroyedAt(i)) <= 1

\* A buffer holding values was consumed, and its iterator destroyed some.
C5_Witness ==
    /\ phase = "dropped" /\ ret.op = "drop_iter"
    /\ Len(pushed) >= 2 /\ Len(destroyed) >= 1

\* C6: an unconsumed buffer has 0 <= len <= N, slots 0..len-1 live and slots
\* len..N-1 unformed.
C6_BufferInvariant ==
    phase = "buffer" =>
        /\ 0 <= buf.len /\ buf.len <= N
        /\ DOMAIN buf.data = 0..(N - 1)
        /\ \A i \in 0..(N - 1) : Live(buf.data, i) <=> i < buf.len

\* An unconsumed buffer with both live and unformed slots.
C6_Witness == phase = "buffer" /\ 0 < buf.len /\ buf.len < N

\* C7: a drain iterator has 0 <= current_index <= len <= N, slots below
\* current_index unformed, slots current_index..len-1 live, slots from len on
\* unformed.
C7_IterInvariant ==
    phase = "iter" =>
        /\ 0 <= iter.current_index /\ iter.current_index <= iter.len /\ iter.len <= N
        /\ DOMAIN iter.buffer = 0..(N - 1)
        /\ \A i \in 0..(N - 1) :
               Live(iter.buffer, i) <=> (iter.current_index <= i /\ i < iter.len)

\* An iterator with yielded, pending and never-pushed slots.
C7_Witness ==
    phase = "iter" /\ 0 < iter.current_index /\ iter.current_index < iter.len /\ iter.len < N

\* C8: after k successful pushes the first k calls of next() return Some and
\* every later call returns None; next() on an exhausted iterator changes
\* neither current_index, len nor any slot.
C8_DrainEndsAfterK ==
    /\ [](ret.op = "next" => /\ ret.res.tag = "Some" <=> pulls <= Len(pushed)
                             /\ ret.res = None <=> pulls > Len(pushed))
    /\ [][ (phase = "iter" /\ iter.current_index = iter.len /\ ret'.op = "next")
               => (ret'.res = None /\ iter' = iter) ]_vars

\* next() returned None a second time on an iterator that had yielded values.
C8_Witness ==
    /\ phase = "iter" /\ ret.op = "next" /\ ret.res = None
    /\ Len(pushed) >= 1 /\ pulls >= Len(pushed) + 2 /\ Len(pushed) < N

\* C9: a push made while len < N returns Ok(()); an error is only ever
\* returned by push, on a full buffer, and it is BufferIsFull.
C9_FailsOnlyWhenFull ==
    /\ [](ret.res.tag = "Err" => /\ ret.op = "push" /\ phase = "buffer"
                                 /\ buf.len = N
                                 /\ ret.res = BufferIsFull(ret.arg[1]))
    /\ [](ret.res.tag \in {"Ok", "Err", "Some", "None", "Unit"})
    /\ [][ (phase = "buffer" /\ buf.len < N /\ ret'.op = "push") => ret'.res = Ok ]_vars

\* The push into the last free slot succeeded.
C9_Witness ==
    phase = "buffer" /\ ret.op = "push" /\ ret.res = Ok /\ buf.len = N /\ N >= 2

\* C10: a successful push(v) at len = n < N turns slot n from unformed into
\* holding v, sets len to n + 1 and leaves every other slot as it was.
C10_PushFrame ==
    [][ (phase = "buffer" /\ buf.len < N /\ ret'.op = "push" /\ ret'.res = Ok)
            => /\ ~Live(buf.data, buf.len)
               /\ buf'.data[buf.len] = <<ret'.arg[1]>>
               /\ buf'.len = buf.len + 1
               /\ \A i \in 0..(N - 1) : i # buf.len => buf'.data[i] = buf.data[i] ]_vars

\* A push succeeded between live slots below it and unformed slots above it.
C10_Witness ==
    /\ phase = "buffer" /\ ret.op = "push" /\ ret.res = Ok
    /\ 2 <= buf.len /\ buf.len < N

\* C11: the len of an unconsumed buffer is the number of pushes on it that
\* returned Ok(()) so far; pushes that returned Err are not counted.
C11_LenCountsSuccessfulPushes ==
    phase = "buffer" => buf.len = Len(pushed)

\* A buffer of two slots was filled and then rejected a push.
C11_Witness ==
    /\ phase = "buffer" /\ rejected /\ ret.op = "push" /\ ret.res.tag = "Err"
    /\ N >= 2 /\ Len(pushed) = N

\* The states of the drain iterator: values remain, or none does.
Active(it) == it.current_index < it.len
Exhausted(it) == it.current_index = it.len

\* C12: into_iter creates the iterator Active when the buffer's len > 0 and
\* Exhausted when it is 0, so that the first next() on an empty buffer's
\* iterator returns None; current_index never decreases; an Exhausted
\* iterator stays Exhausted.
C12_ExhaustedIsTerminal ==
    /\ [][ (phase = "buffer" /\ ret'.op = "into_iter")
               => /\ buf.len > 0 => Active(iter')
                  /\ buf.len = 0 => Exhausted(iter') ]_vars
    /\ [](ret.op = "next" /\ pulls = 1 /\ Len(pushed) = 0 => ret.res = None)
    /\ [][ phase = "iter" => iter'.current_index >= iter.current_index ]_vars
    /\ [][ (phase = "iter" /\ Exhausted(iter)) => Exhausted(iter') ]_vars

\* An iterator that yielded two values was pulled again after it had
\* returned None.
C12_Witness ==
    /\ phase = "iter" /\ Exhausted(iter) /\ iter.len >= 2
    /\ ret.op = "next" /\ ret.res = None /\ pulls >= iter.len + 2

\* C13: into_iter returns an iterator with current_index 0, with the len the
\* buffer had when it was consumed, and whose slots 0..len-1 hold the values
\* the buffer held in the same slots.
C13_IntoIterTransfers ==
    [][ (phase = "buffer" /\ ret'.op = "into_iter")
            => /\ iter'.current_index = 0
               /\ iter'.len = buf.len
               /\ DOMAIN iter'.buffer = 0..(N - 1)
               /\ \A i \in 0..(buf.len - 1) :
                      Live(buf.data, i) /\ iter'.buffer[i] = buf.data[i] ]_vars

\* A buffer holding two different values has just been consumed.
C13_Witness ==
    /\ phase = "iter" /\ ret.op = "into_iter"
    /\ iter.len >= 2 /\ iter.buffer[0] # iter.buffer[1] /\ iter.len < N

\* C14: next() on an Active iterator with current_index = c returns the value
\* of slot c, leaves slot c unformed and current_index at c + 1, changes
\* neither len nor any other slot, and the iterator is Exhausted afterwards
\* exactly when c + 1 = len.
C14_PullFrame ==
    [][ (phase = "iter" /\ Active(iter) /\ ret'.op = "next")
            => /\ Live(iter.buffer, iter.current_index)
               /\ ret'.res = Some(iter.buffer[iter.current_index][1])
               /\ ~Live(iter'.buffer, iter.current_index)
               /\ iter'.current_index = iter.current_index + 1
               /\ iter'.len = iter.len
               /\ \A i \in 0..(N - 1) :
                      i # iter.current_index => iter'.buffer[i] = iter.buffer[i]
               /\ Exhausted(iter') <=> iter.current_index + 1 = iter.len ]_vars

\* The second of at least three values was pulled, after a different first
\* one, and the iterator is still Active.
C14_Witness ==
    /\ phase = "iter" /\ ret.op = "next" /\ ret.res.tag = "Some"
    /\ iter.current_index = 2 /\ Active(iter)
    /\ delivered[1] # delivered[2]

\* The storage of whichever of the buffer and the iterator owns the values.
OwnerStorage == IF phase = "buffer" THEN buf.data ELSE iter.buffer

\* C15: over the whole lifecycle no unformed slot is read or destroyed as a
\* value, and every successfully pushed value is in exactly one place: still
\* held by the owner, returned by one next(), or destroyed by one drop; once
\* the owner is dropped, each one was either returned or destroyed, never
\* both and never neither.
C15_EveryValueAccountedOnce ==
    /\ ~ub
    /\ Len(delivered) <= Len(pushed)
    /\ \A k \in 1..Len(destroyed) :
           /\ destroyed[k].index \in 0..(Len(pushed) - 1)
           /\ destroyed[k].slot = <<pushed[destroyed[k].index + 1]>>
    /\ \A i \in 0..(Len(pushed) - 1) :
           LET pulled == IF i < Len(delivered) /\ delivered[i + 1] = pushed[i + 1] THEN 1 ELSE 0
               dropped == Cardinality(DestroyedAt(i))
               held == IF phase # "dropped" /\ Live(OwnerStorage, i) THEN 1 ELSE 0
           IN /\ pulled + dropped + held = 1
              /\ held = 1 => OwnerStorage[i] = <<pushed[i + 1]>>
              /\ phase = "dropped" => pulled + dropped = 1
    /\ \A i \in 0..(N - 1) :
           i >= Len(pushed) => (phase # "dropped" => ~Live(OwnerStorage, i))

\* An iterator was dropped after yielding some values and destroying others.
C15_Witness ==
    /\ phase = "dropped" /\ ret.op = "drop_iter"
    /\ Len(delivered) >= 1 /\ Len(destroyed) >= 1
    /\ Len(delivered) + Len(destroyed) = Len(pushed) /\ Len(pushed) < N

\* C16: an iterator created with len = k has yielded min(pulls, k) values
\* after pulls calls of next(), so it is Exhausted after exactly k calls and
\* not before; dropping it runs exactly len - current_index element
\* destructors, none when it is Exhausted.
C16_DrainIsFinite ==
    /\ phase = "iter" =>
           /\ iter.len = Len(pushed)
           /\ iter.current_index = (IF pulls < iter.len THEN pulls ELSE iter.len)
           /\ Exhausted(iter) <=> pulls >= iter.len
    /\ (phase = "dropped" /\ ret.op = "drop_iter") =>
           /\ Len(destroyed) = iter.len - iter.current_index
           /\ Exhausted(iter) => destroyed = <<>>

\* An iterator over two or more values was dropped right after the pull that
\* exhausted it.
C16_Witness ==
    /\ phase = "dropped" /\ ret.op = "drop_iter"
    /\ iter.len >= 2 /\ Exhausted(iter) /\ pulls = iter.len /\ destroyed = <<>>

\* C17: the len of an unconsumed buffer never decreases; once a push on it has
\* returned BufferIsFull every later push on it does too; at most N pushes on
\* one buffer return Ok(()).
C17_FullnessIsPermanent ==
    /\ [][ (phase = "buffer" /\ phase' = "buffer") => buf'.len >= buf.len ]_vars
    /\ [][ (phase = "buffer" /\ rejected /\ ret'.op = "push")
               => (ret'.res.tag = "Err" /\ rejected') ]_vars
    /\ [](Len(pushed) <= N)

\* A full buffer rejected a value other than the first one it holds.
C17_Witness ==
    /\ phase = "buffer" /\ rejected /\ ret.op = "push" /\ ret.res.tag = "Err"
    /\ N >= 1 /\ Len(pushed) = N /\ ret.arg # buf.data[0]

\* The slots of storage a call changed.
SlotsChanged(before, after) == {i \in DOMAIN before : after[i] # before[i]}

\* C18 as claimed: a call performs a constant number of element steps,
\* whatever N is and however many values are live; the destructor runs of
\* the one drop of a lifecycle are no more than the single slot step of a
\* push or a pull.
C18_ConstantStepsPerCall ==
    phase = "dropped" => Len(destroyed) <= 1

\* C18, amended: every call is one bounded pass without retries; push and
\* next touch at most one slot and run no destructor, into_iter runs no
\* destructor, and a drop runs one destructor per live value: len of them
\* for the buffer, len - current_index for the iterator, never more than N.
C18_StepsBoundedByLiveValues ==
    /\ [][ (phase = "buffer" /\ ret'.op = "push")
               => /\ destroyed' = destroyed
                  /\ Cardinality(SlotsChanged(buf.data, buf'.data)) <= 1 ]_vars
    /\ [][ (phase = "iter" /\ ret'.op = "next")
               => /\ destroyed' = destroyed
                  /\ Cardinality(SlotsChanged(iter.buffer, iter'.buffer)) <= 1 ]_vars
    /\ [][ (phase = "buffer" /\ ret'.op = "into_iter") => destroyed' = destroyed ]_vars
    /\ [][ (phase = "buffer" /\ ret'.op = "drop_buffer")
               => /\ Len(destroyed') = Len(destroyed) + buf.len
                  /\ buf.len <= N ]_vars
    /\ [][ (phase = "iter" /\ ret'.op = "drop_iter")
               => /\ Len(destroyed') = Len(destroyed) + (iter.len - iter.current_index)
                  /\ iter.len - iter.current_index <= N ]_vars

\* The drop of a buffer ran more than one destructor, and fewer than N.
C18_Witness ==
    /\ phase = "dropped" /\ ret.op = "drop_buffer"
    /\ Len(destroyed) >= 2 /\ Len(destroyed) < N

====
